---- MODULE Spec2Model ----
(***************************************************************************)
(* State-machine model of the LSM9DS1 driver (SparkFunLSM9DS1.c): the      *)
(* file-scope driver state, the public operations, and the two calibration *)
(* procedures step by step.                                                *)
(*                                                                         *)
(* Conventions                                                             *)
(*  - float resolutions and physical biases are held as integers in        *)
(*    millionths of the physical unit (0.000061 g/tick is 61), so that     *)
(*    "resolution * raw" is an exact integer product;                      *)
(*  - int16_t / int32_t / uint8_t values keep their width (ToInt16, ...);  *)
(*  - the bus device is external: every byte it delivers is drawn from a   *)
(*    small set; the stub SPI transport delivers nothing (returns 0).      *)
(***************************************************************************)
EXTENDS Integers, Sequences, FiniteSets, TLC

(***************************** bounds **************************************)
\* public calls made by the application in one behaviour
MaxCalls == 3
\* the same, for the applications that only calibrate and read
MaxCalCalls == 4

(************************* program constants *******************************)
\* sensitivities, in millionths of a unit per ADC tick
SENSITIVITY_ACCELEROMETER_2 == 61
SENSITIVITY_ACCELEROMETER_4 == 122
SENSITIVITY_ACCELEROMETER_8 == 244
SENSITIVITY_ACCELEROMETER_16 == 732
SENSITIVITY_GYROSCOPE_245 == 8750
SENSITIVITY_GYROSCOPE_500 == 17500
SENSITIVITY_GYROSCOPE_2000 == 70000
SENSITIVITY_MAGNETOMETER_4 == 140
SENSITIVITY_MAGNETOMETER_8 == 290
SENSITIVITY_MAGNETOMETER_12 == 430
SENSITIVITY_MAGNETOMETER_16 == 580
\* one unit, in millionths
Micro == 1000000
\* loop limits of the calibration procedures
FIFO_FULL_THS == 31
MAG_CAL_SAMPLES == 128

\* LSM9DS1_Types.h
IMU_MODE_SPI == 0
IMU_MODE_I2C == 1
X_AXIS == 0
Y_AXIS == 1
Z_AXIS == 2
ALL_AXIS == 3
FIFO_OFF == 0
FIFO_THS == 1
INT_ACTIVE_HIGH == 0

\* LSM9DS1_Registers.h, accel/gyro sub-device
ACT_THS == 4
ACT_DUR == 5
INT_GEN_CFG_XL == 6
INT_GEN_THS_X_XL == 7
INT_GEN_DUR_XL == 10
INT1_CTRL == 12
CTRL_REG1_G == 16
CTRL_REG2_G == 17
CTRL_REG3_G == 18
ORIENT_CFG_G == 19
CTRL_REG4 == 30
CTRL_REG5_XL == 31
CTRL_REG6_XL == 32
CTRL_REG7_XL == 33
CTRL_REG8 == 34
CTRL_REG9 == 35
FIFO_CTRL == 46
INT_GEN_CFG_G == 48
INT_GEN_THS_XH_G == 49
INT_GEN_DUR_G == 55
\* LSM9DS1_Registers.h, magnetometer sub-device
OFFSET_X_REG_L_M == 5
OFFSET_X_REG_H_M == 6
CTRL_REG1_M == 32
CTRL_REG2_M == 33
INT_CFG_M == 48
INT_THS_L_M == 50
INT_THS_H_M == 51

(*************************** integer helpers *******************************)
Pow2(k) == 2 ^ k
Bit(x, k) == (x \div Pow2(k)) % 2
\* bitwise operators on non-negative integers below 2^16
BitAnd(x, y) ==
  Bit(x, 0) * Bit(y, 0) + 2 * Bit(x, 1) * Bit(y, 1) + 4 * Bit(x, 2) * Bit(y, 2)
  + 8 * Bit(x, 3) * Bit(y, 3) + 16 * Bit(x, 4) * Bit(y, 4) + 32 * Bit(x, 5) * Bit(y, 5)
  + 64 * Bit(x, 6) * Bit(y, 6) + 128 * Bit(x, 7) * Bit(y, 7) + 256 * Bit(x, 8) * Bit(y, 8)
  + 512 * Bit(x, 9) * Bit(y, 9) + 1024 * Bit(x, 10) * Bit(y, 10)
  + 2048 * Bit(x, 11) * Bit(y, 11) + 4096 * Bit(x, 12) * Bit(y, 12)
  + 8192 * Bit(x, 13) * Bit(y, 13) + 16384 * Bit(x, 14) * Bit(y, 14)
  + 32768 * Bit(x, 15) * Bit(y, 15)
BitOr(x, y) == x + y - BitAnd(x, y)
\* conversions to the fixed-width C types (two's complement wrap)
ToUint16(x) == x % 65536
ToInt16(x) == ((x + 32768) % 65536) - 32768
\* C integer division: truncation toward zero
CDiv(a, b) == IF a >= 0 THEN a \div b ELSE -((-a) \div b)
\* the bytes a sub-device puts on the bus for a signed 16-bit sample
LoByte(v) == ToUint16(v) % 256
HiByte(v) == ToUint16(v) \div 256
Bytes6(t) == <<LoByte(t[1]), HiByte(t[1]), LoByte(t[2]), HiByte(t[2]), LoByte(t[3]), HiByte(t[3])>>
Bytes2(v) == <<LoByte(v), HiByte(v)>>
\* (temp[hi] << 8) | temp[lo] stored into an int16_t
Le16(temp, lo) == ToInt16(BitOr(temp[lo + 1] * 256, temp[lo]))
Min2(a, b) == IF a < b THEN a ELSE b
Max2(a, b) == IF a > b THEN a ELSE b
Zero3 == <<0, 0, 0>>

(******************************* state *************************************)
VARIABLES
  settings,   \* IMUSettings: commInterface, agAddress, mAddress, scales, sample rates;
              \* defaults: the enable, bandwidth, filter and latch fields hold the
              \* values LSM9DS1_init gives them (nothing else assigns them)
  addr,       \* _xgAddress, _mAddress
  res,        \* gRes, aRes, mRes
  biasRaw,    \* gBiasRaw, aBiasRaw, mBiasRaw
  bias,       \* gBias, aBias, mBias
  autoCalc,   \* _autoCalc
  pc,         \* where the single application thread is
  cal,        \* locals of LSM9DS1_calibrate
  mcal,       \* locals of LSM9DS1_calibrateMag
  writes,     \* bus writes issued by the call in progress (or the last one)
  last,       \* the last public call that returned, with its inputs and results
  calls,      \* number of public calls made
  budget      \* number of public calls the application makes at most

vars == <<settings, addr, res, biasRaw, bias, autoCalc, pc, cal, mcal, writes, last, calls, budget>>
driver == <<settings, addr, res, biasRaw, bias, autoCalc>>

CalZero ==
  [autoArg |-> FALSE, entryAuto |-> FALSE, samples |-> 0, ii |-> 0,
   gT |-> Zero3, aT |-> Zero3, seenG |-> {}, seenA |-> {}, grav |-> 0,
   src |-> 0, nG |-> 0, nA |-> 0, prevG |-> Zero3, prevA |-> Zero3, obs |-> <<>>,
   ctrl9 |-> 0]
MCalZero ==
  [loadIn |-> FALSE, i |-> 0, j |-> 0, magMin |-> Zero3, magMax |-> Zero3, seen |-> {},
   ready |-> 0]
NoCall ==
  [op |-> "none", arg |-> 0, ok |-> FALSE, raw |-> <<>>, prior |-> <<>>, out |-> <<>>,
   xfer |-> TRUE]

\* static storage is zero-initialised before any call
Static ==
  /\ settings = [commInterface |-> 0, agAddress |-> 0, mAddress |-> 0, defaults |-> FALSE,
                 gyroScale |-> 0, accelScale |-> 0, magScale |-> 0,
                 gyroRate |-> 0, accelRate |-> 0, magRate |-> 0]
  /\ addr = [xg |-> 0, m |-> 0]
  /\ res = [g |-> 0, a |-> 0, m |-> 0]
  /\ biasRaw = [g |-> Zero3, a |-> Zero3, m |-> Zero3]
  /\ bias = [g |-> Zero3, a |-> Zero3, m |-> Zero3]
  /\ autoCalc = FALSE
  /\ pc = "idle"
  /\ cal = CalZero
  /\ mcal = MCalZero
  /\ writes = <<>>
  /\ last = NoCall
  /\ calls = 0
Init == Static /\ budget = MaxCalls
InitCal == Static /\ budget = MaxCalCalls

(****************************** transport **********************************)
IsI2C == settings.commInterface = IMU_MODE_I2C
\* LSM9DS1_xgReadByte / LSM9DS1_mReadByte: the byte the device delivers (over
\* I2C, any of S; a failed transfer returns an unset byte, also any of S),
\* 0 from the stub SPI transport and from an unknown interface
ReadByte(S) == IF IsI2C THEN S ELSE {0}
\* LSM9DS1_xgReadBytes / LSM9DS1_mReadBytes: the count they return
ReadBytes(count) == IF IsI2C THEN count ELSE 0
\* LSM9DS1_xgWriteByte / LSM9DS1_mWriteByte: the bus writes issued
xgWriteByte(subAddress, data) ==
  IF IsI2C THEN <<[dev |-> "xg", addr |-> addr.xg, reg |-> subAddress, data |-> data]>>
  ELSE <<>>
mWriteByte(subAddress, data) ==
  IF IsI2C THEN <<[dev |-> "m", addr |-> addr.m, reg |-> subAddress, data |-> data]>>
  ELSE <<>>

(**************************** unit converter *******************************)
\* LSM9DS1_calcgRes / calcaRes / calcmRes: the new resolution for a scale,
\* the old one when no case matches
calcgRes(scale, old) ==
  CASE scale = 245 -> SENSITIVITY_GYROSCOPE_245
    [] scale = 500 -> SENSITIVITY_GYROSCOPE_500
    [] scale = 2000 -> SENSITIVITY_GYROSCOPE_2000
    [] OTHER -> old
calcaRes(scale, old) ==
  CASE scale = 2 -> SENSITIVITY_ACCELEROMETER_2
    [] scale = 4 -> SENSITIVITY_ACCELEROMETER_4
    [] scale = 8 -> SENSITIVITY_ACCELEROMETER_8
    [] scale = 16 -> SENSITIVITY_ACCELEROMETER_16
    [] OTHER -> old
calcmRes(scale, old) ==
  CASE scale = 4 -> SENSITIVITY_MAGNETOMETER_4
    [] scale = 8 -> SENSITIVITY_MAGNETOMETER_8
    [] scale = 12 -> SENSITIVITY_MAGNETOMETER_12
    [] scale = 16 -> SENSITIVITY_MAGNETOMETER_16
    [] OTHER -> old
\* LSM9DS1_calcGyro / calcAccel / calcMag
calcPhys(r, raw) == r * raw

\* (int16_t)(1./aRes): the raw ticks of one g. With aRes still 0 the
\* conversion of an infinite double is undefined: any of the values below
OneG(aRes) == IF aRes > 0 THEN {ToInt16(Micro \div aRes)} ELSE {-1, 0}

(***************************** call framing ********************************)
\* the application thread is between calls and may make one more
CanCall == pc = "idle" /\ calls < budget
\* a call that returns at once: the finished calibration frames are gone
Return(op, arg, w) ==
  /\ CanCall
  /\ last' = [NoCall EXCEPT !.op = op, !.arg = arg]
  /\ writes' = w
  /\ calls' = calls + 1 /\ UNCHANGED budget
  /\ cal' = CalZero
  /\ mcal' = MCalZero
  /\ pc' = "idle"
\* a call that read a register into temp before writing
ReturnWrite(op, arg, temp, w) ==
  /\ CanCall
  /\ last' = [NoCall EXCEPT !.op = op, !.arg = arg, !.raw = <<temp>>]
  /\ writes' = w
  /\ calls' = calls + 1 /\ UNCHANGED budget
  /\ cal' = CalZero
  /\ mcal' = MCalZero
  /\ pc' = "idle"
ReturnRead(op, arg, ok, raw, prior, out) ==
  /\ CanCall
  /\ last' = [op |-> op, arg |-> arg, ok |-> ok, raw |-> raw, prior |-> prior, out |-> out,
              xfer |-> TRUE]
  /\ writes' = <<>>
  /\ calls' = calls + 1 /\ UNCHANGED budget
  /\ cal' = CalZero
  /\ mcal' = MCalZero
  /\ pc' = "idle"
\* a call whose burst read went over I2C and I2C_IF_ReadFrom reported failure
ReturnReadFault(op, arg, ok, raw, prior, out) ==
  /\ CanCall
  /\ last' = [op |-> op, arg |-> arg, ok |-> ok, raw |-> raw, prior |-> prior, out |-> out,
              xfer |-> FALSE]
  /\ writes' = <<>>
  /\ calls' = calls + 1 /\ UNCHANGED budget
  /\ cal' = CalZero
  /\ mcal' = MCalZero
  /\ pc' = "idle"

(************************** session / configuration ************************)
\* LSM9DS1_constrainScales on one scale field
constrainGyro(scale) == IF scale # 245 /\ scale # 500 /\ scale # 2000 THEN 245 ELSE scale
constrainAccel(scale) ==
  IF scale # 2 /\ scale # 4 /\ scale # 8 /\ scale # 16 THEN 2 ELSE scale
constrainMag(scale) ==
  IF scale # 4 /\ scale # 8 /\ scale # 12 /\ scale # 16 THEN 4 ELSE scale

\* a faulty variant: the default case stores the argument as given
gyroScaleOf_unclamped(gScl) == gScl
\* the scale a setter stores for its argument (the switch statements)
gyroScaleOf(gScl) == CASE gScl = 500 -> 500 [] gScl = 2000 -> 2000 [] OTHER -> 245
accelScaleOf(aScl) == CASE aScl = 4 -> 4 [] aScl = 8 -> 8 [] aScl = 16 -> 16 [] OTHER -> 2
magScaleOf(mScl) == CASE mScl = 8 -> 8 [] mScl = 12 -> 12 [] mScl = 16 -> 16 [] OTHER -> 4
\* the full-scale bits the switch statements put into the control registers
gyroFsBits(scale) == CASE scale = 500 -> 8 [] scale = 2000 -> 24 [] OTHER -> 0
accelFsBits(scale) == CASE scale = 4 -> 16 [] scale = 8 -> 24 [] scale = 16 -> 8 [] OTHER -> 0
magFsBits(scale) == CASE scale = 8 -> 32 [] scale = 12 -> 64 [] scale = 16 -> 96 [] OTHER -> 0

\* the fields LSM9DS1_init assigns
initSettings(interface, xgAddr, mAddr) ==
  [commInterface |-> interface, agAddress |-> xgAddr, mAddress |-> mAddr,
   defaults |-> TRUE, gyroScale |-> 245, accelScale |-> 2, magScale |-> 4,
   gyroRate |-> 6, accelRate |-> 6, magRate |-> 7]
\* _autoCalc as LSM9DS1_init leaves it
initAutoCalc(old) == FALSE

LSM9DS1_init(interface, xgAddr, mAddr) ==
  /\ CanCall
  /\ settings' = initSettings(interface, xgAddr, mAddr)
  /\ biasRaw' = [g |-> Zero3, a |-> Zero3, m |-> Zero3]
  /\ bias' = [g |-> Zero3, a |-> Zero3, m |-> Zero3]
  /\ autoCalc' = initAutoCalc(autoCalc)
  /\ UNCHANGED <<addr, res>>
  /\ Return("init", interface, <<>>)

\* the register writes of LSM9DS1_initGyro and LSM9DS1_initAccel for the
\* settings s. After LSM9DS1_init: all axes enabled, gyro bandwidth 0, accel
\* bandwidth -1, no HPF, no low power, no high resolution, latched interrupt,
\* no flips. Before it every such field is 0 (accel bandwidth 0 sets BW_SCAL_ODR).
initGyroWrites(s) ==
  xgWriteByte(CTRL_REG1_G,
              BitOr(IF s.defaults THEN BitAnd(s.gyroRate, 7) * 32 ELSE 0, gyroFsBits(s.gyroScale)))
  \o xgWriteByte(CTRL_REG2_G, 0)
  \o xgWriteByte(CTRL_REG3_G, 0)
  \o xgWriteByte(CTRL_REG4, IF s.defaults THEN 58 ELSE 0)
  \o xgWriteByte(ORIENT_CFG_G, 0)
initAccelWrites(s) ==
  xgWriteByte(CTRL_REG5_XL, IF s.defaults THEN 56 ELSE 0)
  \o xgWriteByte(CTRL_REG6_XL,
                 BitOr(BitOr(IF s.defaults THEN BitAnd(s.accelRate, 7) * 32 ELSE 0,
                             accelFsBits(s.accelScale)),
                       IF s.defaults THEN 0 ELSE 4))
  \o xgWriteByte(CTRL_REG7_XL, 0)

\* a faulty variant: the identity check that the source keeps commented out
LSM9DS1_begin_checked(mTest, xgTest, openOk) ==
  LET s == [settings EXCEPT !.gyroScale = constrainGyro(@),
                            !.accelScale = constrainAccel(@),
                            !.magScale = constrainMag(@)]
      w == initGyroWrites(s) \o initAccelWrites(s)
      match == BitOr(xgTest * 256, mTest) = 104 * 256 + 61
  IN /\ CanCall
     /\ settings' = s
     /\ addr' = [xg |-> settings.agAddress, m |-> settings.mAddress]
     /\ res' = [g |-> calcgRes(s.gyroScale, res.g),
                m |-> calcmRes(s.magScale, res.m),
                a |-> calcaRes(s.accelScale, res.a)]
     /\ UNCHANGED <<biasRaw, bias, autoCalc>>
     /\ calls' = calls + 1 /\ UNCHANGED budget
     /\ IF IsI2C /\ ~openOk
        THEN /\ pc' = "initI2C_hang"
             /\ writes' = <<>>
             /\ last' = [NoCall EXCEPT !.op = "running"]
             /\ UNCHANGED <<cal, mcal>>
        ELSE /\ last' = [NoCall EXCEPT !.op = "begin",
                                       !.arg = IF match THEN BitOr(xgTest * 256, mTest) ELSE 0,
                                       !.raw = <<mTest, xgTest>>]
             /\ writes' = IF match
                          THEN [k \in 1..Len(w) |-> [w[k] EXCEPT !.addr = settings.agAddress]]
                          ELSE <<>>
             /\ cal' = CalZero
             /\ mcal' = MCalZero
             /\ pc' = "idle"
\* LSM9DS1_begin up to LSM9DS1_initI2C; I2C_IF_Open may fail, and then
\* LSM9DS1_initI2C spins forever
LSM9DS1_begin(mTest, xgTest, openOk) ==
  LET s == [settings EXCEPT !.gyroScale = constrainGyro(@),
                            !.accelScale = constrainAccel(@),
                            !.magScale = constrainMag(@)]
      w == initGyroWrites(s) \o initAccelWrites(s)
  IN /\ CanCall
     /\ settings' = s
     /\ addr' = [xg |-> settings.agAddress, m |-> settings.mAddress]
     /\ res' = [g |-> calcgRes(s.gyroScale, res.g),
                m |-> calcmRes(s.magScale, res.m),
                a |-> calcaRes(s.accelScale, res.a)]
     /\ UNCHANGED <<biasRaw, bias, autoCalc>>
     /\ calls' = calls + 1 /\ UNCHANGED budget
     /\ IF IsI2C /\ ~openOk
        THEN /\ pc' = "initI2C_hang"
             /\ writes' = <<>>
             /\ last' = [NoCall EXCEPT !.op = "running"]
             /\ UNCHANGED <<cal, mcal>>
        ELSE \* the writes go to the address just copied into _xgAddress
             /\ last' = [NoCall EXCEPT !.op = "begin",
                                       !.arg = BitOr(xgTest * 256, mTest),
                                       !.raw = <<mTest, xgTest>>]
             /\ writes' = [k \in 1..Len(w) |-> [w[k] EXCEPT !.addr = settings.agAddress]]
             /\ cal' = CalZero
             /\ mcal' = MCalZero
             /\ pc' = "idle"

LSM9DS1_set_mAddress(a) ==
  /\ CanCall
  /\ addr' = [addr EXCEPT !.m = a]
  /\ UNCHANGED <<settings, res, biasRaw, bias, autoCalc>>
  /\ Return("set_mAddress", a, <<>>)
LSM9DS1_set_xgAddress(a) ==
  /\ CanCall
  /\ addr' = [addr EXCEPT !.xg = a]
  /\ UNCHANGED <<settings, res, biasRaw, bias, autoCalc>>
  /\ Return("set_xgAddress", a, <<>>)
LSM9DS1_is_autoCalc ==
  /\ CanCall
  /\ UNCHANGED driver
  /\ Return("is_autoCalc", IF autoCalc THEN 1 ELSE 0, <<>>)
LSM9DS1_isConnected(mTest, xgTest) ==
  /\ CanCall
  /\ UNCHANGED driver
  /\ Return("isConnected", IF BitOr(xgTest * 256, mTest) = 104 * 256 + 61 THEN 1 ELSE 0, <<>>)

(******************************* setters ***********************************)
LSM9DS1_setGyroScale(gScl, ctrl1RegValue) ==
  /\ CanCall
  /\ settings' = [settings EXCEPT !.gyroScale = gyroScaleOf(gScl)]
  /\ res' = [res EXCEPT !.g = calcgRes(gyroScaleOf(gScl), @)]
  /\ UNCHANGED <<addr, biasRaw, bias, autoCalc>>
  /\ ReturnWrite("setGyroScale", gScl, ctrl1RegValue,
            xgWriteByte(CTRL_REG1_G, BitOr(BitAnd(ctrl1RegValue, 231), gyroFsBits(gScl))))
LSM9DS1_setAccelScale(aScl, tempRegValue) ==
  /\ CanCall
  /\ settings' = [settings EXCEPT !.accelScale = accelScaleOf(aScl)]
  /\ res' = [res EXCEPT !.a = calcaRes(accelScaleOf(aScl), @)]
  /\ UNCHANGED <<addr, biasRaw, bias, autoCalc>>
  /\ ReturnWrite("setAccelScale", aScl, tempRegValue,
            xgWriteByte(CTRL_REG6_XL, BitOr(BitAnd(tempRegValue, 231), accelFsBits(aScl))))
LSM9DS1_setMagScale(mScl, temp) ==
  /\ CanCall
  /\ settings' = [settings EXCEPT !.magScale = magScaleOf(mScl)]
  /\ res' = [res EXCEPT !.m = calcmRes(magScaleOf(mScl), @)]
  /\ UNCHANGED <<addr, biasRaw, bias, autoCalc>>
  /\ ReturnWrite("setMagScale", mScl, temp,
            mWriteByte(CTRL_REG2_M, BitOr(BitAnd(temp, 159), magFsBits(mScl))))
LSM9DS1_setGyroODR(gRate, temp) ==
  /\ CanCall
  /\ IF BitAnd(gRate, 7) # 0
     THEN /\ settings' = [settings EXCEPT !.gyroRate = BitAnd(gRate, 7)]
          /\ ReturnWrite("setGyroODR", gRate, temp,
                    xgWriteByte(CTRL_REG1_G, BitOr(BitAnd(temp, 31), BitAnd(gRate, 7) * 32)))
     ELSE /\ UNCHANGED settings
          /\ Return("setGyroODR", gRate, <<>>)
  /\ UNCHANGED <<addr, res, biasRaw, bias, autoCalc>>
\* a faulty variant: the mask also clears bit 4, below the rate field
LSM9DS1_setAccelODR_wideMask(aRate, temp) ==
  /\ CanCall
  /\ IF BitAnd(aRate, 7) # 0
     THEN /\ settings' = [settings EXCEPT !.accelRate = BitAnd(aRate, 7)]
          /\ ReturnWrite("setAccelODR", aRate, temp,
                         xgWriteByte(CTRL_REG6_XL, BitOr(BitAnd(temp, 15), BitAnd(aRate, 7) * 32)))
     ELSE /\ UNCHANGED settings
          /\ Return("setAccelODR", aRate, <<>>)
  /\ UNCHANGED <<addr, res, biasRaw, bias, autoCalc>>
LSM9DS1_setAccelODR(aRate, temp) ==
  /\ CanCall
  /\ IF BitAnd(aRate, 7) # 0
     THEN /\ settings' = [settings EXCEPT !.accelRate = BitAnd(aRate, 7)]
          /\ ReturnWrite("setAccelODR", aRate, temp,
                    xgWriteByte(CTRL_REG6_XL, BitOr(BitAnd(temp, 31), BitAnd(aRate, 7) * 32)))
     ELSE /\ UNCHANGED settings
          /\ Return("setAccelODR", aRate, <<>>)
  /\ UNCHANGED <<addr, res, biasRaw, bias, autoCalc>>
LSM9DS1_setMagODR(mRate, temp) ==
  /\ CanCall
  /\ settings' = [settings EXCEPT !.magRate = BitAnd(mRate, 7)]
  /\ UNCHANGED <<addr, res, biasRaw, bias, autoCalc>>
  /\ ReturnWrite("setMagODR", mRate, temp,
            mWriteByte(CTRL_REG1_M, BitOr(BitAnd(temp, 227), BitAnd(mRate, 7) * 4)))

(*************************** raw sample reader ******************************)
decode3(temp) == <<Le16(temp, 1), Le16(temp, 3), Le16(temp, 5)>>
\* a faulty variant: the bias added instead of subtracted
sub3_add(v, b) == <<ToInt16(v[1] + b[1]), ToInt16(v[2] + b[2]), ToInt16(v[3] + b[3])>>
\* *gx -= gBiasRaw[X_AXIS]; ... on int16_t
sub3(v, b) == <<ToInt16(v[1] - b[1]), ToInt16(v[2] - b[2]), ToInt16(v[3] - b[3])>>

\* a faulty variant: the X axis is stored before the count is looked at
readGyroOut_partial(n, temp, prior) ==
  IF n = 6
  THEN IF autoCalc THEN sub3(decode3(temp), biasRaw.g) ELSE decode3(temp)
  ELSE <<Le16(temp, 1), prior[2], prior[3]>>
\* what LSM9DS1_readGyro / readAccel / readMag leave in the caller's three
\* variables: n is the count the burst read returned, temp its buffer, prior
\* the variables' contents before the call
readGyroOut(n, temp, prior) ==
  IF n = 6
  THEN IF autoCalc THEN sub3(decode3(temp), biasRaw.g) ELSE decode3(temp)
  ELSE prior
readAccelOut(n, temp, prior) ==
  IF n = 6
  THEN IF autoCalc THEN sub3(decode3(temp), biasRaw.a) ELSE decode3(temp)
  ELSE prior
\* a faulty variant: the magnetometer treated like the other two sub-devices
readMagOut_adjusted(n, temp, prior) ==
  IF n = 6
  THEN IF autoCalc THEN sub3(decode3(temp), biasRaw.m) ELSE decode3(temp)
  ELSE prior
readMagOut(n, temp, prior) ==
  IF n = 6 THEN decode3(temp) ELSE prior
\* the value the single-axis readers return
readGyroAxisOut(axis, n, temp) ==
  IF n = 2
  THEN IF autoCalc THEN ToInt16(Le16(temp, 1) - biasRaw.g[axis + 1]) ELSE Le16(temp, 1)
  ELSE 0
readAccelAxisOut(axis, n, temp) ==
  IF n = 2
  THEN IF autoCalc THEN ToInt16(Le16(temp, 1) - biasRaw.a[axis + 1]) ELSE Le16(temp, 1)
  ELSE 0
readMagAxisOut(axis, n, temp) ==
  IF n = 2 THEN Le16(temp, 1) ELSE 0

\* dev: the sample the sub-device holds; prior: the caller's variables
LSM9DS1_readGyro(dev, prior) ==
  /\ CanCall
  /\ UNCHANGED driver
  /\ ReturnRead("readGyro", 0, ReadBytes(6) = 6, Bytes6(dev), prior,
                readGyroOut(ReadBytes(6), Bytes6(dev), prior))
LSM9DS1_readAccel(dev, prior) ==
  /\ CanCall
  /\ UNCHANGED driver
  /\ ReturnRead("readAccel", 0, ReadBytes(6) = 6, Bytes6(dev), prior,
                readAccelOut(ReadBytes(6), Bytes6(dev), prior))
LSM9DS1_readMag(dev, prior) ==
  /\ CanCall
  /\ UNCHANGED driver
  /\ ReturnRead("readMag", 0, ReadBytes(6) = 6, Bytes6(dev), prior,
                readMagOut(ReadBytes(6), Bytes6(dev), prior))
\* the triplet readers when I2C_IF_ReadFrom fails inside the burst read:
\* LSM9DS1_I2CreadBytes prints and returns count all the same, and temp holds
\* whatever the failed transfer left in the unset local buffer
LSM9DS1_readGyro_fault(unset, prior) ==
  /\ CanCall /\ IsI2C
  /\ UNCHANGED driver
  /\ ReturnReadFault("readGyro", 0, ReadBytes(6) = 6, unset, prior,
                     readGyroOut(ReadBytes(6), unset, prior))
LSM9DS1_readAccel_fault(unset, prior) ==
  /\ CanCall /\ IsI2C
  /\ UNCHANGED driver
  /\ ReturnReadFault("readAccel", 0, ReadBytes(6) = 6, unset, prior,
                     readAccelOut(ReadBytes(6), unset, prior))
LSM9DS1_readMag_fault(unset, prior) ==
  /\ CanCall /\ IsI2C
  /\ UNCHANGED driver
  /\ ReturnReadFault("readMag", 0, ReadBytes(6) = 6, unset, prior,
                     readMagOut(ReadBytes(6), unset, prior))
LSM9DS1_readGyroAxis(axis, dev) ==
  /\ CanCall
  /\ UNCHANGED driver
  /\ ReturnRead("readGyroAxis", axis, ReadBytes(2) = 2, Bytes2(dev), <<>>,
                <<readGyroAxisOut(axis, ReadBytes(2), Bytes2(dev))>>)
LSM9DS1_readAccelAxis(axis, dev) ==
  /\ CanCall
  /\ UNCHANGED driver
  /\ ReturnRead("readAccelAxis", axis, ReadBytes(2) = 2, Bytes2(dev), <<>>,
                <<readAccelAxisOut(axis, ReadBytes(2), Bytes2(dev))>>)
LSM9DS1_readMagAxis(axis, dev) ==
  /\ CanCall
  /\ UNCHANGED driver
  /\ ReturnRead("readMagAxis", axis, ReadBytes(2) = 2, Bytes2(dev), <<>>,
                <<readMagAxisOut(axis, ReadBytes(2), Bytes2(dev))>>)
\* LSM9DS1_readTemp returns its unset local when the read is short: indet
LSM9DS1_readTemp(dev, indet) ==
  /\ CanCall
  /\ UNCHANGED driver
  /\ ReturnRead("readTemp", 0, ReadBytes(2) = 2, Bytes2(dev), <<>>,
                <<IF ReadBytes(2) = 2
                  THEN ToInt16(25 + (BitOr(Bytes2(dev)[2] * 256, Bytes2(dev)[1]) \div 256))
                  ELSE indet>>)

\* data-ready queries: status is the byte the status register read returns
LSM9DS1_accelAvailable(status) ==
  CanCall /\ UNCHANGED driver /\ Return("accelAvailable", BitAnd(status, 1), <<>>)
LSM9DS1_gyroAvailable(status) ==
  CanCall /\ UNCHANGED driver /\ Return("gyroAvailable", BitAnd(status, 2) \div 2, <<>>)
LSM9DS1_tempAvailable(status) ==
  CanCall /\ UNCHANGED driver /\ Return("tempAvailable", BitAnd(status, 4) \div 4, <<>>)
magAvailable(axis, status) == BitAnd(status, Pow2(axis)) \div Pow2(axis)
LSM9DS1_magAvailable(axis, status) ==
  CanCall /\ UNCHANGED driver /\ Return("magAvailable", magAvailable(axis, status), <<>>)
\* LSM9DS1_calcGyro / calcAccel / calcMag called by the application
LSM9DS1_calc(sub, raw) ==
  CanCall /\ UNCHANGED driver /\ Return("calc", calcPhys(res[sub], raw), <<>>)

(*********************** interrupts, FIFO, power ****************************)
LSM9DS1_configInt(interrupt, generator, activeLow, pushPull, temp) ==
  /\ CanCall
  /\ UNCHANGED driver
  /\ Return("configInt", generator,
            xgWriteByte(interrupt, generator)
            \o xgWriteByte(CTRL_REG8,
                 LET t1 == IF activeLow THEN BitOr(temp, 32) ELSE BitAnd(temp, 223)
                 IN IF pushPull THEN BitAnd(t1, 239) ELSE BitOr(t1, 16)))
LSM9DS1_configInactivity(duration, threshold, sleepOn) ==
  /\ CanCall
  /\ UNCHANGED driver
  /\ Return("configInactivity", duration,
            xgWriteByte(ACT_THS, BitOr(BitAnd(threshold, 127), IF sleepOn THEN 128 ELSE 0))
            \o xgWriteByte(ACT_DUR, duration))
LSM9DS1_getInactivity(temp) ==
  CanCall /\ UNCHANGED driver /\ Return("getInactivity", BitAnd(temp, 16), <<>>)
LSM9DS1_configAccelInt(generator, andInterrupts) ==
  /\ CanCall
  /\ UNCHANGED driver
  /\ Return("configAccelInt", generator,
            xgWriteByte(INT_GEN_CFG_XL, IF andInterrupts THEN BitOr(generator, 128) ELSE generator))
LSM9DS1_configAccelThs(threshold, axis, duration, wait) ==
  /\ CanCall
  /\ UNCHANGED driver
  /\ Return("configAccelThs", threshold,
            xgWriteByte(INT_GEN_THS_X_XL + axis, threshold)
            \o xgWriteByte(INT_GEN_DUR_XL,
                           BitOr(BitAnd(duration, 127), IF wait THEN 128 ELSE 0)))
LSM9DS1_getAccelIntSrc(intSrc) ==
  /\ CanCall
  /\ UNCHANGED driver
  /\ Return("getAccelIntSrc", IF BitAnd(intSrc, 64) # 0 THEN BitAnd(intSrc, 63) ELSE 0, <<>>)
LSM9DS1_configGyroInt(generator, aoi, latch) ==
  /\ CanCall
  /\ UNCHANGED driver
  /\ Return("configGyroInt", generator,
            xgWriteByte(INT_GEN_CFG_G,
                        BitOr(BitOr(generator, IF aoi THEN 128 ELSE 0), IF latch THEN 64 ELSE 0)))
LSM9DS1_configGyroThs(threshold, axis, duration, wait) ==
  /\ CanCall
  /\ UNCHANGED driver
  /\ Return("configGyroThs", threshold,
            xgWriteByte(INT_GEN_THS_XH_G + axis * 2, BitAnd(ToUint16(threshold), 32512) \div 256)
            \o xgWriteByte(INT_GEN_THS_XH_G + 1 + axis * 2, BitAnd(ToUint16(threshold), 255))
            \o xgWriteByte(INT_GEN_DUR_G, BitOr(BitAnd(duration, 127), IF wait THEN 128 ELSE 0)))
LSM9DS1_getGyroIntSrc(intSrc) ==
  /\ CanCall
  /\ UNCHANGED driver
  /\ Return("getGyroIntSrc", IF BitAnd(intSrc, 64) # 0 THEN BitAnd(intSrc, 63) ELSE 0, <<>>)
LSM9DS1_configMagInt(generator, activeLow, latch) ==
  /\ CanCall
  /\ UNCHANGED driver
  /\ Return("configMagInt", generator,
            mWriteByte(INT_CFG_M,
                       BitOr(BitOr(BitOr(BitAnd(generator, 224),
                                         IF activeLow = INT_ACTIVE_HIGH THEN 4 ELSE 0),
                                   IF ~latch THEN 2 ELSE 0),
                             IF generator # 0 THEN 1 ELSE 0)))
LSM9DS1_configMagThs(threshold) ==
  /\ CanCall
  /\ UNCHANGED driver
  /\ Return("configMagThs", threshold,
            mWriteByte(INT_THS_H_M, BitAnd(threshold, 32512) \div 256)
            \o mWriteByte(INT_THS_L_M, BitAnd(threshold, 255)))
LSM9DS1_getMagIntSrc(intSrc) ==
  /\ CanCall
  /\ UNCHANGED driver
  /\ Return("getMagIntSrc", IF BitAnd(intSrc, 1) # 0 THEN BitAnd(intSrc, 254) ELSE 0, <<>>)
LSM9DS1_sleepGyro(enable, temp) ==
  /\ CanCall
  /\ UNCHANGED driver
  /\ Return("sleepGyro", IF enable THEN 1 ELSE 0,
            xgWriteByte(CTRL_REG9, IF enable THEN BitOr(temp, 64) ELSE BitAnd(temp, 191)))
\* the two writes of the FIFO helpers
\* a faulty variant: the byte read is not carried into the write
enableFIFO_blind(enable, temp) ==
  xgWriteByte(CTRL_REG9, IF enable THEN 2 ELSE 0)
enableFIFO(enable, temp) ==
  xgWriteByte(CTRL_REG9, IF enable THEN BitOr(temp, 2) ELSE BitAnd(temp, 253))
setFIFO(fifoMode, fifoThs) ==
  xgWriteByte(FIFO_CTRL,
              BitOr(BitAnd(fifoMode, 7) * 32, BitAnd(IF fifoThs <= 31 THEN fifoThs ELSE 31, 31)))
LSM9DS1_enableFIFO(enable, temp) ==
  CanCall /\ UNCHANGED driver /\ Return("enableFIFO", IF enable THEN 1 ELSE 0, enableFIFO(enable, temp))
LSM9DS1_setFIFO(fifoMode, fifoThs) ==
  CanCall /\ UNCHANGED driver /\ Return("setFIFO", fifoMode, setFIFO(fifoMode, fifoThs))
LSM9DS1_getFIFOSamples(src) ==
  CanCall /\ UNCHANGED driver /\ Return("getFIFOSamples", BitAnd(src, 63), <<>>)

(************************ gyro / accel calibration **************************)
\* a faulty variant: the flag bits stay in the count
fifoCount_unmasked(src) == src
\* samples = (LSM9DS1_xgReadByte(FIFO_SRC) & 0x3F)
fifoCount(src) == BitAnd(src, 63)
\* gBiasRawTemp[k] += g[k]
accumGyro(gT, g) == <<gT[1] + g[1], gT[2] + g[2], gT[3] + g[3]>>
\* aBiasRawTemp[k] += a[k], with one g taken off the Z axis
accumAccel(aT, a, grav) == <<aT[1] + a[1], aT[2] + a[2], aT[3] + (a[3] - grav)>>
\* gBiasRaw[ii] = gBiasRawTemp[ii] / samples: an int32_t quotient stored
\* into an int16_t
biasOf(sum, samples) == ToInt16(CDiv(sum, samples))
\* a faulty variant: _autoCalc = autoCalc;
autoCalcAfter_assign(arg, cur) == arg
\* if (autoCalc) _autoCalc = true;
autoCalcAfter(arg, cur) == IF arg THEN TRUE ELSE cur

\* entry: LSM9DS1_enableFIFO(true); LSM9DS1_setFIFO(FIFO_THS, 0x1F). In cal,
\* src is the byte the last poll read, nG and nA count the triplets popped,
\* prevG and prevA are the raw bias arrays as the run found them, ctrl9 is
\* the CTRL_REG9 byte read at entry
CalibrateCall(autoArg, temp, grav) ==
  /\ CanCall
  /\ cal' = [CalZero EXCEPT !.autoArg = autoArg, !.entryAuto = autoCalc, !.grav = grav,
                            !.prevG = biasRaw.g, !.prevA = biasRaw.a,
                            !.ctrl9 = temp]
  /\ writes' = enableFIFO(TRUE, temp) \o setFIFO(FIFO_THS, 31)
  /\ pc' = "cal_poll"
  /\ calls' = calls + 1 /\ UNCHANGED budget
  /\ last' = [NoCall EXCEPT !.op = "running"]
  /\ mcal' = MCalZero
  /\ UNCHANGED driver
\* a faulty variant: the loop is left one sample early
CalibratePoll_early(src) ==
  /\ pc = "cal_poll"
  /\ cal' = [cal EXCEPT !.samples = fifoCount(src), !.src = src]
  /\ pc' = IF fifoCount(src) < FIFO_FULL_THS - 1 THEN "cal_poll" ELSE "cal_gyro"
  /\ UNCHANGED <<driver, mcal, writes, last, calls, budget>>
\* one turn of while (samples < 0x1F)
CalibratePoll(src) ==
  /\ pc = "cal_poll"
  /\ cal' = [cal EXCEPT !.samples = fifoCount(src), !.src = src]
  /\ pc' = IF fifoCount(src) < FIFO_FULL_THS THEN "cal_poll" ELSE "cal_gyro"
  /\ UNCHANGED <<driver, mcal, writes, last, calls, budget>>
\* LSM9DS1_readGyro(&gx, &gy, &gz) and the three sums (gx, gy, gz are unset
\* before the call: unset3 stands for their contents on a short read)
CalibrateReadGyro(dev, unset3) ==
  /\ pc = "cal_gyro"
  /\ cal' = [cal EXCEPT
               !.gT = accumGyro(@, readGyroOut(ReadBytes(6), Bytes6(dev), unset3)),
               !.seenG = @ \cup {dev},
               !.nG = @ + 1]
  /\ pc' = "cal_accel"
  /\ UNCHANGED <<driver, mcal, writes, last, calls, budget>>
CalibrateReadAccel(dev, unset3) ==
  /\ pc = "cal_accel"
  /\ cal' = [cal EXCEPT
               !.aT = accumAccel(@, readAccelOut(ReadBytes(6), Bytes6(dev), unset3), cal.grav),
               !.seenA = @ \cup {dev},
               !.nA = @ + 1,
               !.ii = IF cal.ii + 1 < cal.samples THEN cal.ii + 1 ELSE 0]
  /\ pc' = IF cal.ii + 1 < cal.samples THEN "cal_gyro" ELSE "cal_publish"
  /\ UNCHANGED <<driver, mcal, writes, last, calls, budget>>
\* one turn of for (ii = 0; ii < 3; ii++)
CalibratePublish ==
  /\ pc = "cal_publish"
  /\ biasRaw' = [biasRaw EXCEPT !.g[cal.ii + 1] = biasOf(cal.gT[cal.ii + 1], cal.samples),
                                !.a[cal.ii + 1] = biasOf(cal.aT[cal.ii + 1], cal.samples)]
  /\ bias' = [bias EXCEPT !.g[cal.ii + 1] = calcPhys(res.g, biasRaw'.g[cal.ii + 1]),
                          !.a[cal.ii + 1] = calcPhys(res.a, biasRaw'.a[cal.ii + 1])]
  /\ cal' = [cal EXCEPT !.ii = cal.ii + 1]
  /\ pc' = IF cal.ii + 1 < 3 THEN "cal_publish" ELSE "cal_finish"
  /\ UNCHANGED <<settings, addr, res, autoCalc, mcal, writes, last, calls, budget>>
\* another task reads the global arrays gBiasRaw and aBiasRaw while the run
\* is in its publishing loop (the arrays are plain globals, the loop takes no
\* lock and masks no interrupt); obs is what that task read
ObserveBias ==
  /\ pc = "cal_publish"
  /\ cal.obs = <<>>
  /\ cal' = [cal EXCEPT !.obs = <<biasRaw.g, biasRaw.a>>]
  /\ UNCHANGED <<driver, mcal, writes, last, calls, budget, pc>>
\* LSM9DS1_enableFIFO(false); LSM9DS1_setFIFO(FIFO_OFF, 0x00); the flag; return
CalibrateFinish(temp) ==
  /\ pc = "cal_finish"
  /\ writes' = writes \o enableFIFO(FALSE, temp) \o setFIFO(FIFO_OFF, 0)
  /\ autoCalc' = autoCalcAfter(cal.autoArg, autoCalc)
  /\ last' = [NoCall EXCEPT !.op = "calibrate", !.arg = IF cal.autoArg THEN 1 ELSE 0]
  /\ pc' = "idle"
  /\ UNCHANGED <<settings, addr, res, biasRaw, bias, cal, mcal, calls, budget>>

(************************ magnetometer calibration **************************)
\* if (magTemp[j] > magMax[j]) magMax[j] = magTemp[j]; and the same for magMin
magMaxUpdate(magMax, magTemp) ==
  <<Max2(magMax[1], magTemp[1]), Max2(magMax[2], magTemp[2]), Max2(magMax[3], magTemp[3])>>
magMinUpdate(magMin, magTemp) ==
  <<Min2(magMin[1], magTemp[1]), Min2(magMin[2], magTemp[2]), Min2(magMin[3], magTemp[3])>>
\* a faulty variant: the quotient rounded down instead of toward zero
magBiasOf_floor(mx, mn) == ToInt16((mx + mn) \div 2)
\* mBiasRaw[j] = (magMax[j] + magMin[j]) / 2
magBiasOf(mx, mn) == ToInt16(CDiv(mx + mn, 2))
\* a faulty variant: the high byte written first
LSM9DS1_magOffset_highFirst(axis, offset) ==
  IF axis > 2 THEN <<>>
  ELSE mWriteByte(OFFSET_X_REG_H_M + 2 * axis, BitAnd(ToUint16(offset), 65280) \div 256)
       \o mWriteByte(OFFSET_X_REG_L_M + 2 * axis, BitAnd(ToUint16(offset), 255))
\* LSM9DS1_magOffset: the two register writes for one axis
LSM9DS1_magOffset(axis, offset) ==
  IF axis > 2 THEN <<>>
  ELSE mWriteByte(OFFSET_X_REG_L_M + 2 * axis, BitAnd(ToUint16(offset), 255))
       \o mWriteByte(OFFSET_X_REG_H_M + 2 * axis, BitAnd(ToUint16(offset), 65280) \div 256)

CalibrateMagCall(loadIn) ==
  /\ CanCall
  /\ mcal' = [MCalZero EXCEPT !.loadIn = loadIn]
  /\ writes' = <<>>
  /\ pc' = "mag_poll"
  /\ calls' = calls + 1 /\ UNCHANGED budget
  /\ last' = [NoCall EXCEPT !.op = "running"]
  /\ cal' = CalZero
  /\ UNCHANGED driver
\* a faulty variant: the sample is read whatever the status says
CalibrateMagPoll_nowait(status) ==
  /\ pc = "mag_poll"
  /\ pc' = "mag_read"
  /\ mcal' = [mcal EXCEPT !.ready = @ + magAvailable(ALL_AXIS, status)]
  /\ UNCHANGED <<driver, cal, writes, last, calls, budget>>
\* one turn of while (!LSM9DS1_magAvailable(ALL_AXIS)); in mcal, ready counts
\* the status reads that found the bit set
CalibrateMagPoll(status) ==
  /\ pc = "mag_poll"
  /\ pc' = IF magAvailable(ALL_AXIS, status) # 0 THEN "mag_read" ELSE "mag_poll"
  /\ mcal' = [mcal EXCEPT !.ready = @ + magAvailable(ALL_AXIS, status)]
  /\ UNCHANGED <<driver, cal, writes, last, calls, budget>>
\* a faulty variant: the offset is published from inside the sampling loop
CalibrateMagRead_publishing(dev, unset3) ==
  /\ pc = "mag_read"
  /\ LET magTemp == readMagOut(ReadBytes(6), Bytes6(dev), unset3)
     IN /\ mcal' = [mcal EXCEPT !.magMax = magMaxUpdate(@, magTemp),
                                !.magMin = magMinUpdate(@, magTemp),
                                !.seen = @ \cup {dev},
                                !.i = mcal.i + 1]
        /\ biasRaw' = [biasRaw EXCEPT !.m = <<CDiv(mcal'.magMax[1] + mcal'.magMin[1], 2),
                                              CDiv(mcal'.magMax[2] + mcal'.magMin[2], 2),
                                              CDiv(mcal'.magMax[3] + mcal'.magMin[3], 2)>>]
  /\ pc' = IF mcal.i + 1 < MAG_CAL_SAMPLES THEN "mag_poll" ELSE "mag_publish"
  /\ UNCHANGED <<settings, addr, res, bias, autoCalc, cal, writes, last, calls, budget>>
\* LSM9DS1_readMag into magTemp and the running minimum and maximum; seen is
\* the set of samples the device delivered in this run
CalibrateMagRead(dev, unset3) ==
  /\ pc = "mag_read"
  /\ LET magTemp == readMagOut(ReadBytes(6), Bytes6(dev), unset3)
     IN mcal' = [mcal EXCEPT !.magMax = magMaxUpdate(@, magTemp),
                             !.magMin = magMinUpdate(@, magTemp),
                             !.seen = @ \cup {dev},
                             !.i = mcal.i + 1]
  /\ pc' = IF mcal.i + 1 < MAG_CAL_SAMPLES THEN "mag_poll" ELSE "mag_publish"
  /\ UNCHANGED <<driver, cal, writes, last, calls, budget>>
\* one turn of for (j = 0; j < 3; j++); the last one returns
CalibrateMagPublish ==
  /\ pc = "mag_publish"
  /\ biasRaw' = [biasRaw EXCEPT
                   !.m[mcal.j + 1] = magBiasOf(mcal.magMax[mcal.j + 1], mcal.magMin[mcal.j + 1])]
  /\ bias' = [bias EXCEPT !.m[mcal.j + 1] = calcPhys(res.m, biasRaw'.m[mcal.j + 1])]
  /\ writes' = IF mcal.loadIn
               THEN writes \o LSM9DS1_magOffset(mcal.j, biasRaw'.m[mcal.j + 1])
               ELSE writes
  /\ mcal' = [mcal EXCEPT !.j = mcal.j + 1]
  /\ IF mcal.j + 1 < 3
     THEN pc' = "mag_publish" /\ UNCHANGED last
     ELSE /\ pc' = "idle"
          /\ last' = [NoCall EXCEPT !.op = "calibrateMag", !.arg = IF mcal.loadIn THEN 1 ELSE 0]
  /\ UNCHANGED <<settings, addr, res, autoCalc, cal, calls, budget>>

(******************* the application and the device ************************)
Bool == {FALSE, TRUE}
Axes == {X_AXIS, Y_AXIS, Z_AXIS}
Modes == {IMU_MODE_SPI, IMU_MODE_I2C}
\* bytes a register read may return
RegVals == {0, 255}
\* FIFO_SRC bytes: empty; 31 samples with the watermark flag; 32 with two flags
FifoSrcVals == {0, 159, 224}
\* STATUS_REG_M bytes: nothing ready; X, Y, Z ready without ZYXDA; all set
MagStatusVals == {0, 7, 15}
\* contents of the caller's variables before a triplet read
Priors == {<<1, 2, 3>>}
\* arguments of the setters: a supported value and an unsupported one
GyroScaleArgs == {500, 7}
AccelScaleArgs == {16, 7}
MagScaleArgs == {12, 7}
RateArgs == {0, 3}
\* samples the sub-devices hold: at rest, and a transient the first sample
\* of a calibration run may show
GyroAtRest == <<100, -200, 300>>
GyroJolt == <<70, -200, 301>>
AccelAtRest == <<10, -20, 16400>>
MagAtRest == <<-100, -101, 5>>
\* the samples a run may read next: any of first to begin with, then rest
FirstThen(first, rest, seen) == IF seen = {} THEN first ELSE rest

Next ==
  \/ \E i \in Modes : LSM9DS1_init(i, 107, 30)
  \/ \E m \in ReadByte({61, 0}), x \in ReadByte({104}), ok \in Bool : LSM9DS1_begin(m, x, ok)
  \/ LSM9DS1_set_mAddress(28)
  \/ LSM9DS1_set_xgAddress(106)
  \/ LSM9DS1_is_autoCalc
  \/ \E m \in ReadByte({61, 0}) : LSM9DS1_isConnected(m, 104)
  \/ \E x \in GyroScaleArgs, r \in ReadByte(RegVals) : LSM9DS1_setGyroScale(x, r)
  \/ \E x \in AccelScaleArgs, r \in ReadByte(RegVals) : LSM9DS1_setAccelScale(x, r)
  \/ \E x \in MagScaleArgs, r \in ReadByte(RegVals) : LSM9DS1_setMagScale(x, r)
  \/ \E x \in RateArgs, r \in ReadByte(RegVals) : LSM9DS1_setGyroODR(x, r)
  \/ \E x \in RateArgs, r \in ReadByte(RegVals) : LSM9DS1_setAccelODR(x, r)
  \/ \E x \in RateArgs, r \in ReadByte(RegVals) : LSM9DS1_setMagODR(x, r)
  \/ \E d \in {GyroAtRest, biasRaw.g}, p \in Priors : LSM9DS1_readGyro(d, p)
  \/ \E d \in {AccelAtRest, biasRaw.a}, p \in Priors : LSM9DS1_readAccel(d, p)
  \/ \E d \in {MagAtRest, biasRaw.m}, p \in Priors : LSM9DS1_readMag(d, p)
  \/ \E x \in Axes, d \in {GyroAtRest, biasRaw.g} : LSM9DS1_readGyroAxis(x, d[x + 1])
  \/ \E x \in Axes, d \in {AccelAtRest, biasRaw.a} : LSM9DS1_readAccelAxis(x, d[x + 1])
  \/ \E x \in Axes, d \in {MagAtRest, biasRaw.m} : LSM9DS1_readMagAxis(x, d[x + 1])
  \/ \E d \in {-256, 1280} : LSM9DS1_readTemp(d, 0)
  \/ \E r \in ReadByte(RegVals) : LSM9DS1_accelAvailable(r)
  \/ \E r \in ReadByte(RegVals) : LSM9DS1_gyroAvailable(r)
  \/ \E r \in ReadByte(RegVals) : LSM9DS1_tempAvailable(r)
  \/ \E r \in ReadByte(MagStatusVals) : LSM9DS1_magAvailable(ALL_AXIS, r)
  \/ LSM9DS1_calc("g", 100)
  \/ \E r \in ReadByte(RegVals) : LSM9DS1_configInt(INT1_CTRL, 64, TRUE, FALSE, r)
  \/ LSM9DS1_configInactivity(5, 200, TRUE)
  \/ \E r \in ReadByte(RegVals) : LSM9DS1_getInactivity(r)
  \/ LSM9DS1_configAccelInt(2, TRUE)
  \/ LSM9DS1_configAccelThs(20, Z_AXIS, 5, TRUE)
  \/ \E r \in ReadByte(RegVals) : LSM9DS1_getAccelIntSrc(r)
  \/ LSM9DS1_configGyroInt(32, FALSE, TRUE)
  \/ LSM9DS1_configGyroThs(-300, Y_AXIS, 5, TRUE)
  \/ \E r \in ReadByte(RegVals) : LSM9DS1_getGyroIntSrc(r)
  \/ LSM9DS1_configMagInt(128, 1, TRUE)
  \/ LSM9DS1_configMagThs(10000)
  \/ \E r \in ReadByte(RegVals) : LSM9DS1_getMagIntSrc(r)
  \/ \E e \in Bool, r \in ReadByte(RegVals) : LSM9DS1_sleepGyro(e, r)
  \/ \E e \in Bool, r \in ReadByte(RegVals) : LSM9DS1_enableFIFO(e, r)
  \/ LSM9DS1_setFIFO(FIFO_THS, 40)
  \/ \E r \in ReadByte(FifoSrcVals) : LSM9DS1_getFIFOSamples(r)
  \/ \E x \in Bool, r \in ReadByte({66}), g \in OneG(res.a) : CalibrateCall(x, r, g)
  \/ \E r \in ReadByte(FifoSrcVals) : CalibratePoll(r)
  \/ \E d \in FirstThen({GyroAtRest, GyroJolt}, {GyroAtRest}, cal.seenG) :
       CalibrateReadGyro(d, Zero3)
  \/ CalibrateReadAccel(AccelAtRest, Zero3)
  \/ CalibratePublish
  \/ \E r \in ReadByte({66}) : CalibrateFinish(r)
  \/ \E x \in Bool : CalibrateMagCall(x)
  \/ \E r \in ReadByte(MagStatusVals) : CalibrateMagPoll(r)
  \/ CalibrateMagRead(MagAtRest, Zero3)
  \/ CalibrateMagPublish

Spec == Init /\ [][Next]_vars

(************* an application that calibrates gyro and accel ***************)
\* triplets a sub-device at rest may hold through a whole run, the extremes
\* of the 16-bit range among them
CalGyroSamples == {<<-32768, 32767, 0>>, <<100, -200, 300>>}
CalAccelSamples == {<<32767, -32768, -32768>>, <<-1, 1, -16375>>, <<0, 0, -16376>>}
CalAccelScaleArgs == {2, 4, 8, 16, 7}
NextCal ==
  \/ \E i \in Modes : LSM9DS1_init(i, 107, 30)
  \/ \E m \in ReadByte({61}), x \in ReadByte({104}) : LSM9DS1_begin(m, x, TRUE)
  \/ \E x \in CalAccelScaleArgs, r \in ReadByte({0}) : LSM9DS1_setAccelScale(x, r)
  \/ \E x \in Bool, r \in ReadByte({66}), g \in OneG(res.a) : CalibrateCall(x, r, g)
  \/ \E r \in ReadByte({0, 159}) : CalibratePoll(r)
  \/ \E d \in FirstThen(CalGyroSamples, cal.seenG, cal.seenG) : CalibrateReadGyro(d, Zero3)
  \/ \E d \in FirstThen(CalAccelSamples, cal.seenA, cal.seenA) : CalibrateReadAccel(d, Zero3)
  \/ CalibratePublish
  \/ ObserveBias
  \/ \E r \in ReadByte({66}) : CalibrateFinish(r)
  \/ \E p \in Priors : LSM9DS1_readGyro(biasRaw.g, p)
  \/ \E p \in Priors : LSM9DS1_readAccel(biasRaw.a, p)
  \/ \E x \in Axes : LSM9DS1_readGyroAxis(x, biasRaw.g[x + 1])
  \/ \E x \in Axes : LSM9DS1_readAccelAxis(x, biasRaw.a[x + 1])

SpecCal == Init /\ [][NextCal]_vars

(************* an application that calibrates the magnetometer *************)
\* triplets the magnetometer may deliver, in any order, during a run
CalMagSamples == {<<-32768, -101, 5>>, <<32767, -3, 7>>}
NextMagCal ==
  \/ \E i \in Modes : LSM9DS1_init(i, 107, 30)
  \/ \E r \in ReadByte({66}), g \in OneG(res.a) : CalibrateCall(TRUE, r, g)
  \/ \E r \in ReadByte({159}) : CalibratePoll(r)
  \/ CalibrateReadGyro(GyroAtRest, Zero3)
  \/ CalibrateReadAccel(AccelAtRest, Zero3)
  \/ CalibratePublish
  \/ \E r \in ReadByte({66}) : CalibrateFinish(r)
  \/ \E x \in Bool : CalibrateMagCall(x)
  \/ \E r \in ReadByte({0, 15}) : CalibrateMagPoll(r)
  \/ \E d \in CalMagSamples : CalibrateMagRead(d, Zero3)
  \/ CalibrateMagPublish
  \/ \E d \in {MagAtRest, biasRaw.m}, p \in Priors : LSM9DS1_readMag(d, p)
  \/ \E x \in Axes, d \in {MagAtRest, biasRaw.m} : LSM9DS1_readMagAxis(x, d[x + 1])

SpecMagCal == InitCal /\ [][NextMagCal]_vars

(************ calibration runs on a FIFO that fills in the end *************)
\* FIFO_SRC bytes: empty, 30 samples, 31 samples with the watermark flag
FillingFifoVals == {0, 30, 159}
\* CTRL_REG9 bytes the device may hold when a run starts: nothing set, the
\* gyro asleep with the FIFO on, everything set but the FIFO bit
Ctrl9Vals == {0, 66, 253}
\* the byte the device holds in CTRL_REG9 during a run: the one last written
Ctrl9Held == IF Len(writes) > 0 /\ writes[1].reg = CTRL_REG9 THEN writes[1].data ELSE 0
\* a poll that finds the FIFO filled
PollFull == \E r \in ReadByte({159}) : CalibratePoll(r)
\* the steps of a run once it is past the poll
CalibrateRunStep ==
  \/ CalibrateReadGyro(GyroAtRest, Zero3)
  \/ CalibrateReadAccel(AccelAtRest, Zero3)
  \/ CalibratePublish
  \/ \E r \in ReadByte({Ctrl9Held}) : CalibrateFinish(r)
NextCalLive ==
  \/ \E i \in Modes : LSM9DS1_init(i, 107, 30)
  \/ \E x \in GyroScaleArgs, r \in ReadByte(RegVals) : LSM9DS1_setGyroScale(x, r)
  \/ \E x \in Bool, r \in ReadByte(Ctrl9Vals), g \in OneG(res.a) : CalibrateCall(x, r, g)
  \/ \E r \in ReadByte(FillingFifoVals) : CalibratePoll(r)
  \/ CalibrateRunStep
\* the caller's thread keeps running, and over I2C a run that keeps polling
\* finds the FIFO filled in the end
SpecCalLive ==
  /\ Init /\ [][NextCalLive]_vars
  /\ WF_vars(CalibrateRunStep)
  /\ WF_vars(PollFull)

(********* magnetometer runs on a device that keeps delivering ************)
\* a status read that finds new data
MagPollReady == \E r \in ReadByte({15}) : CalibrateMagPoll(r)
\* the steps of a run between and after the status polls
CalibrateMagRunStep ==
  \/ CalibrateMagRead(MagAtRest, Zero3)
  \/ CalibrateMagPublish
NextMagLive ==
  \/ \E i \in Modes : LSM9DS1_init(i, 107, 30)
  \/ \E x \in MagScaleArgs, r \in ReadByte(RegVals) : LSM9DS1_setMagScale(x, r)
  \/ \E x \in Bool : CalibrateMagCall(x)
  \/ \E r \in ReadByte(MagStatusVals) : CalibrateMagPoll(r)
  \/ CalibrateMagRunStep
\* the caller's thread keeps running, and over I2C a run that keeps polling
\* finds new data in the end, each of the 128 times
SpecMagLive ==
  /\ Init /\ [][NextMagLive]_vars
  /\ WF_vars(CalibrateMagRunStep)
  /\ WF_vars(MagPollReady)

(*************** triplet reads over a bus that may fail *******************)
\* contents of the caller's variables before a read
FaultPriors == {<<1, 2, 3>>, Zero3}
\* what a failed transfer may leave in the reader's local buffer
UnsetBuffers == {<<0, 0, 0, 0, 0, 0>>, <<255, 255, 255, 255, 255, 255>>}
NextBusFault ==
  \/ \E i \in Modes : LSM9DS1_init(i, 107, 30)
  \/ \E m \in ReadByte({61}), x \in ReadByte({104}) : LSM9DS1_begin(m, x, TRUE)
  \/ \E d \in {GyroAtRest, GyroJolt}, p \in FaultPriors : LSM9DS1_readGyro(d, p)
  \/ \E p \in FaultPriors : LSM9DS1_readAccel(AccelAtRest, p)
  \/ \E p \in FaultPriors : LSM9DS1_readMag(MagAtRest, p)
  \/ \E u \in UnsetBuffers, p \in FaultPriors : LSM9DS1_readGyro_fault(u, p)
  \/ \E u \in UnsetBuffers, p \in FaultPriors : LSM9DS1_readAccel_fault(u, p)
  \/ \E u \in UnsetBuffers, p \in FaultPriors : LSM9DS1_readMag_fault(u, p)

SpecBusFault == Init /\ [][NextBusFault]_vars

(***************************************************************************)
(* Properties                                                              *)
(***************************************************************************)
\* a public call named op has just returned (its step is the one that
\* counts the call, or the last step of a calibration run)
Returned(op) == pc = "idle" /\ last.op = op
\* the step in which a call of op returns
Returns(op) == last'.op = op /\ pc' = "idle" /\ (calls' = calls + 1 \/ pc # "idle")

\* the largest and the smallest member of a finite set of integers
SetMax(S) == CHOOSE x \in S : \A y \in S : y <= x
SetMin(S) == CHOOSE x \in S : \A y \in S : x <= y
\* half of s, rounded toward zero
HalfTowardZero(s) == CHOOSE q \in -32768..32767 :
                       \/ 2 * q = s
                       \/ s > 0 /\ 2 * q = s - 1
                       \/ s < 0 /\ 2 * q = s + 1
\* the values axis j took among the samples a magnetometer run read
AxisSeen(j) == {d[j] : d \in mcal.seen}
MagRunDone == Returned("calibrateMag") /\ mcal.i = MAG_CAL_SAMPLES

\* C1 as claimed: after LSM9DS1_calibrateMag, mBiasRaw[j] is half the sum,
\* rounded toward zero, of the largest and the smallest value of axis j among
\* the 128 samples read.
C1_OffsetOfObserved ==
  MagRunDone =>
    \A j \in 1..3 : biasRaw.m[j] = HalfTowardZero(SetMax(AxisSeen(j)) + SetMin(AxisSeen(j)))
\* C1 as amended: after LSM9DS1_calibrateMag, mBiasRaw[j] is half the sum,
\* rounded toward zero, of the largest and the smallest value of axis j among
\* the 128 samples read together with 0, the value the running maximum and
\* minimum start from.
C1_OffsetOfObservedAndZero ==
  MagRunDone =>
    \A j \in 1..3 :
      biasRaw.m[j] = HalfTowardZero(SetMax(AxisSeen(j) \cup {0}) + SetMin(AxisSeen(j) \cup {0}))
C1_Witness ==
  /\ MagRunDone /\ mcal.seen = CalMagSamples
  /\ biasRaw.m = <<0, -50, 3>>

\* trunc(1 / aRes) for the four sensitivities
TicksPerG == [r \in {61, 122, 244, 732} |->
                CASE r = 61 -> 16393 [] r = 122 -> 8196 [] r = 244 -> 4098 [] r = 732 -> 1366]
\* C2: LSM9DS1_calibrate entered with _autoCalc false, a FIFO level of 31 and
\* 31 identical gyro and 31 identical accel triplets publishes gBiasRaw equal
\* to the gyro triplet and aBiasRaw equal to (ax, ay, az - trunc(1/aRes)), for
\* every 16-bit sample and every supported accel scale. The int16_t store of
\* az - trunc(1/aRes) breaks it when the difference is below -32768.
C2_IdenticalTripletsExact ==
  (/\ Returned("calibrate") /\ ~cal.entryAuto /\ cal.samples = 31
   /\ Cardinality(cal.seenG) = 1 /\ Cardinality(cal.seenA) = 1
   /\ settings.accelScale \in {2, 4, 8, 16} /\ res.a \in DOMAIN TicksPerG)
    => \A g \in cal.seenG, a \in cal.seenA :
         /\ biasRaw.g = g
         /\ biasRaw.a = <<a[1], a[2], a[3] - TicksPerG[res.a]>>

\* C3: LSM9DS1_calibrate(true) returns with _autoCalc true; and with
\* _autoCalc true a gyro (accel) read whose bytes encode gBiasRaw (aBiasRaw)
\* returns zeros, for the triplet readers and for the single-axis readers.
C3_BiasReadsZero ==
  /\ (Returned("calibrate") /\ last.arg = 1) => autoCalc
  /\ (Returned("readGyro") /\ last.ok /\ autoCalc /\ last.raw = Bytes6(biasRaw.g))
       => last.out = <<0, 0, 0>>
  /\ (Returned("readAccel") /\ last.ok /\ autoCalc /\ last.raw = Bytes6(biasRaw.a))
       => last.out = <<0, 0, 0>>
  /\ (Returned("readGyroAxis") /\ last.ok /\ autoCalc
        /\ last.raw = Bytes2(biasRaw.g[last.arg + 1])) => last.out = <<0>>
  /\ (Returned("readAccelAxis") /\ last.ok /\ autoCalc
        /\ last.raw = Bytes2(biasRaw.a[last.arg + 1])) => last.out = <<0>>
C3_Witness ==
  /\ Returned("readGyro") /\ last.ok /\ autoCalc
  /\ biasRaw.g = <<-32768, 32767, 0>> /\ last.raw = <<0, 128, 255, 127, 0, 0>>
  /\ last.out = <<0, 0, 0>>

\* the sensitivity table of the data sheet, in millionths per tick
GyroSens == [s \in {245, 500, 2000} |-> CASE s = 245 -> 8750 [] s = 500 -> 17500 [] s = 2000 -> 70000]
AccelSens == [s \in {2, 4, 8, 16} |-> CASE s = 2 -> 61 [] s = 4 -> 122 [] s = 8 -> 244 [] s = 16 -> 732]
MagSens == [s \in {4, 8, 12, 16} |-> CASE s = 4 -> 140 [] s = 8 -> 290 [] s = 12 -> 430 [] s = 16 -> 580]
ResolutionFresh ==
  /\ settings.gyroScale \in DOMAIN GyroSens => res.g = GyroSens[settings.gyroScale]
  /\ settings.accelScale \in DOMAIN AccelSens => res.a = AccelSens[settings.accelScale]
  /\ settings.magScale \in DOMAIN MagSens => res.m = MagSens[settings.magScale]

\* C4: after every operation that sets a configured scale (LSM9DS1_init,
\* LSM9DS1_begin, LSM9DS1_setGyroScale, LSM9DS1_setAccelScale,
\* LSM9DS1_setMagScale) gRes, aRes and mRes equal the sensitivity constant of
\* the scale now configured. LSM9DS1_init breaks it: it stores the default
\* scales and leaves the three resolutions as they were.
C4_ResolutionNeverStale ==
  (\E op \in {"init", "begin", "setGyroScale", "setAccelScale", "setMagScale"} : Returned(op))
    => ResolutionFresh

\* C5: a triplet read whose burst returned fewer than 6 bytes leaves the
\* caller's three variables as they were.
C5_ShortReadKeepsPrior ==
  ((Returned("readGyro") \/ Returned("readAccel") \/ Returned("readMag")) /\ ~last.ok)
    => last.out = last.prior
C5_Witness ==
  /\ Returned("readGyro") /\ ~last.ok
  /\ last.prior = <<1, 2, 3>> /\ last.out = <<1, 2, 3>>
  /\ decode3(last.raw) # last.prior

\* C6: LSM9DS1_begin leaves every configured scale in its supported set, an
\* unsupported stored value replaced by 245 / 2 / 4 and a supported one kept;
\* each scale setter stores its argument when supported and 245 / 2 / 4
\* otherwise; and a scale once supported stays supported.
GyroScales == {245, 500, 2000}
AccelScales == {2, 4, 8, 16}
MagScales == {4, 8, 12, 16}
Resolved(v, S, dflt) == IF v \in S THEN v ELSE dflt
ScalesSupported ==
  /\ settings.gyroScale \in GyroScales
  /\ settings.accelScale \in AccelScales
  /\ settings.magScale \in MagScales
C6_ScalesResolve ==
  /\ [](Returned("begin") => ScalesSupported)
  /\ [](Returned("setGyroScale") => settings.gyroScale = Resolved(last.arg, GyroScales, 245))
  /\ [](Returned("setAccelScale") => settings.accelScale = Resolved(last.arg, AccelScales, 2))
  /\ [](Returned("setMagScale") => settings.magScale = Resolved(last.arg, MagScales, 4))
  /\ [][Returns("begin") =>
          /\ settings'.gyroScale = Resolved(settings.gyroScale, GyroScales, 245)
          /\ settings'.accelScale = Resolved(settings.accelScale, AccelScales, 2)
          /\ settings'.magScale = Resolved(settings.magScale, MagScales, 4)]_vars
  /\ [][ScalesSupported => ScalesSupported']_vars
C6_Witness ==
  /\ Returned("setGyroScale") /\ last.arg = 7 /\ settings.gyroScale = 245
  /\ settings.accelScale = 0

\* C7 as claimed: once _autoCalc is true no operation sets it back to false.
C7_NeverCleared == [][autoCalc => autoCalc']_vars
\* C7 as amended: once _autoCalc is true every operation but LSM9DS1_init
\* leaves it true.
C7_ClearedOnlyByInit == [][(autoCalc /\ ~Returns("init")) => autoCalc']_vars
C7_Witness == Returned("calibrate") /\ last.arg = 0 /\ cal.entryAuto /\ autoCalc

\* C8: the bias arrays are zero after LSM9DS1_init, and afterwards a step
\* changes them only if it is LSM9DS1_init or the publishing loop of a
\* calibration run, which starts after the last sample was read.
BiasZero ==
  /\ biasRaw = [g |-> Zero3, a |-> Zero3, m |-> Zero3]
  /\ bias = [g |-> Zero3, a |-> Zero3, m |-> Zero3]
C8_BiasFrame ==
  /\ [](Returned("init") => BiasZero)
  /\ [][(biasRaw' # biasRaw \/ bias' # bias) =>
          \/ Returns("init")
          \/ pc = "cal_publish"
          \/ pc = "mag_publish" /\ mcal.i = MAG_CAL_SAMPLES]_vars
C8_Witness ==
  /\ pc = "cal_accel" /\ cal.gT # Zero3
  /\ biasRaw.g # Zero3 /\ biasRaw.a # Zero3

\* the signed 16-bit value a low and a high byte encode, low byte first
LeSigned(lo, hi) == IF hi * 256 + lo >= 32768 THEN hi * 256 + lo - 65536 ELSE hi * 256 + lo
\* C9: LSM9DS1_readMag and LSM9DS1_readMagAxis return the little-endian
\* signed 16-bit values of the bytes delivered, whatever _autoCalc and
\* mBiasRaw are.
C9_MagReadsRaw ==
  /\ (Returned("readMag") /\ last.ok) =>
       last.out = <<LeSigned(last.raw[1], last.raw[2]), LeSigned(last.raw[3], last.raw[4]),
                    LeSigned(last.raw[5], last.raw[6])>>
  /\ (Returned("readMagAxis") /\ last.ok) =>
       last.out = <<LeSigned(last.raw[1], last.raw[2])>>
C9_Witness ==
  /\ Returned("readMag") /\ last.ok /\ autoCalc
  /\ biasRaw.m = <<0, -50, 3>> /\ last.out = <<-100, -101, 5>>

\* the writes LSM9DS1_calibrateMag owes for axes 0 .. n-1 of mBiasRaw
OffsetWrites(n) ==
  [k \in 1..(2 * n) |->
     LET j == (k - 1) \div 2
         u == IF biasRaw.m[j + 1] < 0 THEN biasRaw.m[j + 1] + 65536 ELSE biasRaw.m[j + 1]
     IN [dev |-> "m", addr |-> addr.m,
         reg |-> IF k % 2 = 1 THEN OFFSET_X_REG_L_M + 2 * j ELSE OFFSET_X_REG_H_M + 2 * j,
         data |-> IF k % 2 = 1 THEN u % 256 ELSE u \div 256]]
\* C10: LSM9DS1_calibrateMag with write-back issues, per axis j, the low byte
\* of mBiasRaw[j] to OFFSET_X_REG_L_M + 2j and then its high byte to
\* OFFSET_X_REG_H_M + 2j, six writes in all and none before the 128th sample
\* was read; without write-back it issues none.
C10_OffsetWriteBack ==
  /\ [](pc \in {"mag_poll", "mag_read"} => writes = <<>>)
  /\ []((MagRunDone /\ last.arg = 1) => writes = OffsetWrites(3))
  /\ []((MagRunDone /\ last.arg = 0) => writes = <<>>)
  /\ [][(pc = "mag_publish" /\ writes' # writes) =>
          /\ mcal.i = MAG_CAL_SAMPLES /\ mcal.loadIn
          /\ Len(writes) = 2 * mcal.j
          /\ writes' = writes \o <<OffsetWrites(3)'[2 * mcal.j + 1], OffsetWrites(3)'[2 * mcal.j + 2]>>]_vars
C10_Witness ==
  /\ MagRunDone /\ last.arg = 1 /\ Len(writes) = 6
  /\ biasRaw.m = <<0, -50, 3>>
  /\ writes[3].reg = 7 /\ writes[3].data = 206 /\ writes[4].reg = 8 /\ writes[4].data = 255

\* the registers LSM9DS1_initGyro and LSM9DS1_initAccel write, in order
BeginRegs == <<CTRL_REG1_G, CTRL_REG2_G, CTRL_REG3_G, CTRL_REG4, ORIENT_CFG_G,
               CTRL_REG5_XL, CTRL_REG6_XL, CTRL_REG7_XL>>
\* C11: whatever identity bytes LSM9DS1_begin read, it returns
\* (xgTest << 8) | mTest, has issued the writes of LSM9DS1_initGyro and
\* LSM9DS1_initAccel (eight register writes over I2C), and leaves the driver
\* in the state its settings alone determine, the caller free to go on.
C11_MismatchNotFatal ==
  /\ [](Returned("begin") =>
          /\ last.arg = last.raw[2] * 256 + last.raw[1]
          /\ writes = initGyroWrites(settings) \o initAccelWrites(settings)
          /\ IsI2C => /\ Len(writes) = 8
                      /\ \A k \in 1..8 : writes[k].reg = BeginRegs[k] /\ writes[k].dev = "xg")
  /\ [][Returns("begin") =>
          /\ ScalesSupported' /\ ResolutionFresh'
          /\ addr' = [xg |-> settings.agAddress, m |-> settings.mAddress]
          /\ biasRaw' = biasRaw /\ bias' = bias /\ autoCalc' = autoCalc
          /\ pc' = "idle"]_vars
C11_Witness ==
  /\ Returned("begin") /\ IsI2C /\ last.raw = <<0, 104>> /\ last.arg = 26624
  /\ Len(writes) = 8 /\ calls < budget

\* bit k of the byte x
BitOf(x, k) == (x \div (2 ^ k)) % 2
\* the byte new differs from the byte old in bits lo .. hi at most, and its
\* bits lo .. hi hold the value field
FieldWritten(new, old, lo, hi, field) ==
  /\ \A k \in 0..7 : (k < lo \/ k > hi) => BitOf(new, k) = BitOf(old, k)
  /\ (new \div (2 ^ lo)) % (2 ^ (hi - lo + 1)) = field
\* the one write a setter issued: register reg of sub-device dev, the byte
\* read at the start of the call changed in bits lo .. hi only
SetterWrote(dev, reg, lo, hi, field) ==
  /\ Len(writes) = 1 /\ writes[1].dev = dev /\ writes[1].reg = reg
  /\ FieldWritten(writes[1].data, last.raw[1], lo, hi, field)
GyroFsCode == [x \in GyroScales |-> CASE x = 245 -> 0 [] x = 500 -> 1 [] x = 2000 -> 3]
AccelFsCode == [x \in AccelScales |-> CASE x = 2 -> 0 [] x = 4 -> 2 [] x = 8 -> 3 [] x = 16 -> 1]
MagFsCode == [x \in MagScales |-> CASE x = 4 -> 0 [] x = 8 -> 1 [] x = 12 -> 2 [] x = 16 -> 3]
ScaleSettersWrite ==
  /\ (Returned("setGyroScale") /\ IsI2C) =>
       /\ settings.gyroScale = Resolved(last.arg, GyroScales, 245)
       /\ SetterWrote("xg", CTRL_REG1_G, 3, 4, GyroFsCode[settings.gyroScale])
  /\ (Returned("setAccelScale") /\ IsI2C) =>
       /\ settings.accelScale = Resolved(last.arg, AccelScales, 2)
       /\ SetterWrote("xg", CTRL_REG6_XL, 3, 4, AccelFsCode[settings.accelScale])
  /\ (Returned("setMagScale") /\ IsI2C) =>
       /\ settings.magScale = Resolved(last.arg, MagScales, 4)
       /\ SetterWrote("m", CTRL_REG2_M, 5, 6, MagFsCode[settings.magScale])
  /\ (Returned("setMagODR") /\ IsI2C) =>
       /\ settings.magRate = last.arg % 8
       /\ SetterWrote("m", CTRL_REG1_M, 2, 4, last.arg % 8)
GyroOdrWrites ==
  /\ settings.gyroRate = last.arg % 8
  /\ SetterWrote("xg", CTRL_REG1_G, 5, 7, last.arg % 8)
AccelOdrWrites ==
  /\ settings.accelRate = last.arg % 8
  /\ SetterWrote("xg", CTRL_REG6_XL, 5, 7, last.arg % 8)
\* C12 as claimed: over I2C every call of the six setters stores its
\* settings field and writes the control register back with the bits of its
\* field changed and every other bit as read at the start of the call.
C12_SettersWriteField ==
  /\ ScaleSettersWrite
  /\ (Returned("setGyroODR") /\ IsI2C) => GyroOdrWrites
  /\ (Returned("setAccelODR") /\ IsI2C) => AccelOdrWrites
\* C12 as amended: the same, except that LSM9DS1_setGyroODR and
\* LSM9DS1_setAccelODR called with a rate whose low three bits are zero
\* write nothing and leave the settings as they were.
C12_SettersWriteFieldOrSkip ==
  /\ []ScaleSettersWrite
  /\ []((Returned("setGyroODR") /\ IsI2C /\ last.arg % 8 # 0) => GyroOdrWrites)
  /\ []((Returned("setAccelODR") /\ IsI2C /\ last.arg % 8 # 0) => AccelOdrWrites)
  /\ [](((Returned("setGyroODR") \/ Returned("setAccelODR")) /\ last.arg % 8 = 0)
          => writes = <<>>)
  /\ [][((Returns("setGyroODR") \/ Returns("setAccelODR")) /\ last'.arg % 8 = 0)
          => settings' = settings]_vars
C12_Witness ==
  /\ Returned("setAccelODR") /\ IsI2C /\ last.arg = 3 /\ last.raw = <<255>>
  /\ writes[1].data = 127 /\ settings.accelRate = 3

\* C13: when LSM9DS1_calibrate returns, gBias = gRes * gBiasRaw and
\* aBias = aRes * aBiasRaw on every axis, and when LSM9DS1_calibrateMag
\* returns, mBias = mRes * mBiasRaw, gRes / aRes / mRes being the
\* sensitivities of the scales configured at that moment. The products are
\* taken with the variables gRes, aRes and mRes, which LSM9DS1_init leaves
\* stale: after it the published bias is that of another scale, or zero.
C13_BiasConsistent ==
  /\ (Returned("calibrate") /\ settings.gyroScale \in DOMAIN GyroSens) =>
       \A k \in 1..3 : bias.g[k] = GyroSens[settings.gyroScale] * biasRaw.g[k]
  /\ (Returned("calibrate") /\ settings.accelScale \in DOMAIN AccelSens) =>
       \A k \in 1..3 : bias.a[k] = AccelSens[settings.accelScale] * biasRaw.a[k]
  /\ (MagRunDone /\ settings.magScale \in DOMAIN MagSens) =>
       \A k \in 1..3 : bias.m[k] = MagSens[settings.magScale] * biasRaw.m[k]

\* C14: LSM9DS1_calibrate leaves its polling loop only on a count of at
\* least 31 and then goes on to read samples; while it polls it publishes no
\* bias, writes nothing more and returns nothing. On a transport that always
\* answers 0 it polls forever; when a run that keeps polling finds the FIFO
\* filled in the end, the run returns.
C14_PollUntilFull ==
  /\ [][(pc = "cal_poll" /\ pc' # "cal_poll") => (cal'.samples >= 31 /\ pc' = "cal_gyro")]_vars
  /\ [][(pc = "cal_poll" /\ cal'.samples < 31) => pc' = "cal_poll"]_vars
  /\ [][pc = "cal_poll" =>
          /\ biasRaw' = biasRaw /\ bias' = bias /\ autoCalc' = autoCalc
          /\ writes' = writes /\ last' = last /\ last.op = "running"]_vars
  /\ [][(pc = "cal_poll" /\ ~IsI2C) => pc' = "cal_poll"]_vars
  /\ ((pc = "cal_poll" /\ IsI2C) ~> Returned("calibrate"))
C14_Witness ==
  /\ Returned("calibrate") /\ cal.samples = 31 /\ biasRaw.g # Zero3

\* the run is past its polling loop
PastPoll == pc \in {"cal_gyro", "cal_accel", "cal_publish", "cal_finish"} \/ Returned("calibrate")
\* C15: past the polling loop of LSM9DS1_calibrate the sample count is the
\* low six bits of the last FIFO_SRC byte and lies in 31 .. 63; gyro and
\* accel triplets are popped in turn, gyro first; and when the averaging
\* starts exactly N of each have been popped, N not being zero.
C15_SampleCount ==
  /\ PastPoll => (cal.samples = cal.src % 64 /\ 31 <= cal.samples /\ cal.samples <= 63)
  /\ pc = "cal_gyro" => (cal.nG = cal.nA /\ cal.nG < cal.samples)
  /\ pc = "cal_accel" => (cal.nG = cal.nA + 1 /\ cal.nG <= cal.samples)
  /\ (pc \in {"cal_publish", "cal_finish"} \/ Returned("calibrate")) =>
       (cal.nG = cal.samples /\ cal.nA = cal.samples /\ cal.samples # 0)
C15_Witness ==
  /\ Returned("calibrate") /\ cal.src = 224 /\ cal.samples = 32
  /\ cal.nG = 32 /\ cal.nA = 32

\* C16: LSM9DS1_calibrateMag reads a triplet only after a status read, made
\* since the previous triplet, found the data-ready bit set; it returns
\* after exactly 128 such status reads and 128 triplets; a status read that
\* finds the bit clear keeps it polling, publishing nothing, forever on a
\* transport that always answers 0; and a run that finds the bit set in the
\* end each time returns.
C16_MagReadsAfterReady ==
  /\ [](pc = "mag_poll" => (mcal.ready = mcal.i /\ mcal.i < 128))
  /\ [](pc = "mag_read" => (mcal.ready = mcal.i + 1 /\ mcal.i < 128))
  /\ []((pc = "mag_publish" \/ Returned("calibrateMag")) => (mcal.i = 128 /\ mcal.ready = 128))
  /\ [][(pc = "mag_poll" /\ mcal'.ready = mcal.ready) => pc' = "mag_poll"]_vars
  /\ [][(pc = "mag_poll" \/ pc = "mag_read") =>
          (biasRaw' = biasRaw /\ bias' = bias /\ writes' = writes /\ last' = last)]_vars
  /\ [][(pc = "mag_poll" /\ ~IsI2C) => (pc' = "mag_poll" /\ mcal' = mcal)]_vars
  /\ ((pc = "mag_poll" /\ IsI2C) ~> Returned("calibrateMag"))
C16_Witness ==
  /\ Returned("calibrateMag") /\ mcal.i = 128 /\ mcal.ready = 128
  /\ biasRaw.m = <<-50, -50, 2>>

\* the raw bias arrays a run is about to publish
NewBiasG == <<biasOf(cal.gT[1], cal.samples), biasOf(cal.gT[2], cal.samples),
              biasOf(cal.gT[3], cal.samples)>>
NewBiasA == <<biasOf(cal.aT[1], cal.samples), biasOf(cal.aT[2], cal.samples),
              biasOf(cal.aT[3], cal.samples)>>
\* C17: a task that reads gBiasRaw and aBiasRaw while LSM9DS1_calibrate
\* publishes sees each array either as the run found it or as the run
\* leaves it, never some axes new and the others old. The publishing loop
\* stores one axis per turn, unprotected, so a read between two turns sees
\* a mixed triplet.
C17_AtomicPublish ==
  (cal.obs # <<>>) =>
    /\ cal.obs[1] = cal.prevG \/ cal.obs[1] = NewBiasG
    /\ cal.obs[2] = cal.prevA \/ cal.obs[2] = NewBiasA

\* the registers of the bus writes issued so far in this call
WriteRegs == [k \in 1..Len(writes) |-> <<writes[k].dev, writes[k].reg>>]
\* the byte new is the byte old with bit 1 set to b and every other bit kept
FifoBitSet(new, old, b) == FieldWritten(new, old, 1, 1, b)
PlainBiasG(d, n) == <<biasOf(n * d[1], n), biasOf(n * d[2], n), biasOf(n * d[3], n)>>
PlainBiasA(d, n, grav) ==
  <<biasOf(n * d[1], n), biasOf(n * d[2], n), biasOf(n * (d[3] - grav), n)>>
\* C19: the bias LSM9DS1_calibrate publishes is a function of the device
\* samples alone: a run over a sub-device that held one triplet throughout
\* publishes what a run started with _autoCalc false publishes from those
\* samples, whatever _autoCalc and the stored bias were at entry. The
\* readers the run samples with subtract the stored bias when _autoCalc is
\* true, so such a run publishes the residue instead.
C19_BiasIgnoresEntryState ==
  (Returned("calibrate") /\ IsI2C) =>
    /\ \A d \in cal.seenG : cal.seenG = {d} => biasRaw.g = PlainBiasG(d, cal.samples)
    /\ \A d \in cal.seenA : cal.seenA = {d} => biasRaw.a = PlainBiasA(d, cal.samples, cal.grav)

\* C20: over I2C a triplet read whose bus transfer failed gets a short count
\* from the burst read and leaves the caller's three variables as they
\* were. LSM9DS1_I2CreadBytes returns count whether or not the transfer
\* failed, so the reader takes the read for complete and stores what the
\* buffer holds.
C20_FailedTransferKeepsPrior ==
  ((Returned("readGyro") \/ Returned("readAccel") \/ Returned("readMag"))
     /\ IsI2C /\ ~last.xfer)
    => (~last.ok /\ last.out = last.prior)

====
